---- MODULE Spec2Model ----
(***************************************************************************)
(* Repository / star / follow request handlers of the worker API           *)
(* (routes "/repositories" and "/users"), modelled against the relational  *)
(* store they talk to.  Every `await db...` of a handler is one atomic     *)
(* store statement; a request in flight sits between two of them, so       *)
(* concurrent requests interleave statement by statement.                  *)
(***************************************************************************)
EXTENDS Integers, Sequences, FiniteSets, TLC

(* ---------------------------- bounds ----------------------------------- *)
MaxUsers == 2
MaxRepos == 2
MaxStr == 2
MaxProcs == 2
MaxTime == 1
MaxCount == 2

(* ---------------------------- value domains ---------------------------- *)
NULL == 0
UserIds == 1..MaxUsers
\* ids a request may name: one more than can ever exist, so a missing id is always available
AnyRepoId == 1..(MaxRepos + 1)
AnyUserId == 1..(MaxUsers + 1)
Strings == 1..MaxStr
Procs == 1..MaxProcs
NoUser == NULL
NoCount == 0 - 1

VARIABLES users, repositories, stars, follows, nextId, now, pc, req, last

vars == <<users, repositories, stars, follows, nextId, now, pc, req, last>>
tables == <<users, repositories, stars, follows>>

(* ---------------------------- helpers ---------------------------------- *)
Restrict(f, K) == [k \in K |-> f[k]]

\* `# ${data.name}\n\n${data.description || ""}`: a string determined by (name, description),
\* different from every client string
ReadmeTemplate(name, description) == MaxStr + 1 + (name - 1) * (MaxStr + 1) + description

NoData == [k \in {} |-> NULL]

Request(op, user, id, data) == [op |-> op, user |-> user, id |-> id, data |-> data]
NoRequest == Request("none", NoUser, NULL, NoData)

Response(status, error, id, isStarred, list) ==
    [status |-> status, error |-> error, id |-> id, isStarred |-> isStarred, list |-> list]
NoResponse == Response(NULL, "", NULL, FALSE, <<>>)
Json(id, status) == Response(status, "", id, FALSE, <<>>)
JsonError(error, status) == Response(status, error, NULL, FALSE, <<>>)
\* an exception escaping the handler (a constraint violation raised by the store)
InternalError == Response(500, "Internal Server Error", NULL, FALSE, <<>>)

Idle(p) == pc[p] = "idle"

\* the starsCount a star or unstar request that reached its counter update found
Before(request) ==
    IF request.op \in {"star", "unstar"} /\ request.id \in DOMAIN repositories
    THEN repositories[request.id].starsCount ELSE NoCount

\* `last` is the exchange the step just taken completed, if it completed one
Exchange(request, r, before) == [request |-> request, response |-> r, before |-> before]

\* the request of p returns response r
Finish(p, request, r) ==
    /\ pc' = [pc EXCEPT ![p] = "idle"]
    /\ req' = [req EXCEPT ![p] = NoRequest]
    /\ last' = Exchange(request, r, Before(request))

NoExchange == Exchange(NoRequest, NoResponse, NoCount)

\* the request of p goes on to its next store statement
Goto(p, request, label) ==
    /\ pc' = [pc EXCEPT ![p] = label]
    /\ req' = [req EXCEPT ![p] = request]
    /\ last' = NoExchange

(* ---------------------------- schema ----------------------------------- *)
\* a fresh row of table repositories
NewRepository(id, name, description, ownerId, language, isPrivate, readme) ==
    [id |-> id, name |-> name, description |-> description, ownerId |-> ownerId,
     language |-> language, starsCount |-> 0, forksCount |-> 0, watchersCount |-> 0,
     isPrivate |-> isPrivate, readme |-> readme, createdAt |-> now, updatedAt |-> now]

\* db.update(repositories).set(values).where(eq(repositories.id, id)):
\* the named columns, and updatedAt by its $onUpdate
UpdateRepository(id, values) ==
    IF id \in DOMAIN repositories
    THEN [repositories EXCEPT ![id] =
            [c \in DOMAIN @ |-> IF c \in DOMAIN values THEN values[c]
                                ELSE IF c = "updatedAt" THEN now ELSE @[c]]]
    ELSE repositories

\* db.delete(repositories).where(eq(repositories.id, id))
DeleteRepository(id) == Restrict(repositories, DOMAIN repositories \ {id})

\* a fresh row of table stars
NewStar(userId, repositoryId) ==
    [userId |-> userId, repositoryId |-> repositoryId, createdAt |-> now]

\* and(eq(stars.userId, userId), eq(stars.repositoryId, repositoryId))
StarRows(userId, repositoryId) ==
    {s \in stars : s.userId = userId /\ s.repositoryId = repositoryId}

CascadeNothing(id) == stars

\* ON DELETE cascade of stars.repository_id
CascadeStars(id) == {s \in stars : s.repositoryId # id}

\* table stars without its primary key
StarInsertUnkeyed(userId, repositoryId) ==
    /\ userId \in users
    /\ repositoryId \in DOMAIN repositories

\* PRIMARY KEY(user_id, repository_id) and the two foreign keys of table stars
StarInsertAccepted(userId, repositoryId) ==
    /\ StarRows(userId, repositoryId) = {}
    /\ userId \in users
    /\ repositoryId \in DOMAIN repositories

\* PRIMARY KEY(follower_id, following_id) and the two foreign keys of table follows
FollowInsertAccepted(followerId, followingId) ==
    /\ <<followerId, followingId>> \notin follows
    /\ followerId \in users
    /\ followingId \in users

(* ---------------------------- middleware ------------------------------- *)
authenticatedOnly(user) == user \in users

(* ---------------------------- validation ------------------------------- *)
CreateKeys == {"name", "description", "language", "isPrivate", "readme"}
UpdateKeys == {"description", "language", "readme"}

createRepoSchema(body) ==
    [k \in (DOMAIN body \cap CreateKeys) \cup {"isPrivate"} |->
        IF k \in DOMAIN body THEN body[k] ELSE FALSE]

updateRepoSchemaPassthrough(body) == body

updateRepoSchema(body) == Restrict(body, DOMAIN body \cap UpdateKeys)

Optional(data, k) == IF k \in DOMAIN data THEN data[k] ELSE NULL

(* ---------------------------- Init ------------------------------------- *)
Init ==
    /\ users = UserIds
    /\ repositories = [i \in {} |-> NULL]
    /\ stars = {}
    /\ follows = {}
    /\ nextId = 1
    /\ now = 0
    /\ pc = [p \in Procs |-> "idle"]
    /\ req = [p \in Procs |-> NoRequest]
    /\ last = NoExchange

(* ---------------------------- POST /repositories ----------------------- *)
NameTakenByAnyone(repo, name, user) == repo.name = name

\* and(eq(repositories.name, data.name), eq(repositories.ownerId, user.id))
NameTaken(repo, name, user) == repo.name = name /\ repo.ownerId = user

\* arrival and the existence check
CreateSelect(p, user, body) ==
    /\ Idle(p)
    /\ authenticatedOnly(user)
    /\ nextId + Cardinality({q \in Procs : pc[q] = "create_insert"}) <= MaxRepos
    /\ "name" \in DOMAIN body
    /\ LET request == Request("create", user, NULL, createRepoSchema(body))
           existing == {i \in DOMAIN repositories :
                           NameTaken(repositories[i], request.data.name, user)}
       IN IF existing # {}
          THEN Finish(p, request, JsonError("Repository with this name already exists", 400))
          ELSE Goto(p, request, "create_insert")
    /\ UNCHANGED <<tables, nextId, now>>

CreateInsert(p) ==
    /\ pc[p] = "create_insert"
    /\ LET data == req[p].data
           description == Optional(data, "description")
           readme == IF "readme" \in DOMAIN data THEN data.readme
                     ELSE ReadmeTemplate(data.name, description)
           row == NewRepository(nextId, data.name, description, req[p].user,
                                Optional(data, "language"), data.isPrivate, readme)
       IN /\ repositories' = [i \in DOMAIN repositories \cup {nextId} |->
                                 IF i = nextId THEN row ELSE repositories[i]]
          /\ nextId' = nextId + 1
          /\ Finish(p, req[p], Json(nextId, 201))
    /\ UNCHANGED <<users, stars, follows, now>>

(* ---------------------------- PATCH /repositories/:id ------------------ *)
NobodyRefused(repo, user) == FALSE

\* repo.ownerId !== user.id
NotOwner(repo, user) == repo.ownerId # user

PatchSelect(p, user, id, body) ==
    /\ Idle(p)
    /\ authenticatedOnly(user)
    /\ updateRepoSchema(body) # NoData
    /\ LET request == Request("update", user, id, updateRepoSchema(body))
       IN IF id \notin DOMAIN repositories
          THEN Finish(p, request, JsonError("Repository not found", 404))
          ELSE IF NotOwner(repositories[id], user)
               THEN Finish(p, request, JsonError("Unauthorized", 403))
               ELSE Goto(p, request, "patch_update")
    /\ UNCHANGED <<tables, nextId, now>>

PatchUpdate(p) ==
    /\ pc[p] = "patch_update"
    /\ repositories' = UpdateRepository(req[p].id, req[p].data)
    /\ Finish(p, req[p],
              Json(IF req[p].id \in DOMAIN repositories THEN req[p].id ELSE NULL, 200))
    /\ UNCHANGED <<users, stars, follows, nextId, now>>

(* ---------------------------- DELETE /repositories/:id ----------------- *)
DeleteSelect(p, user, id) ==
    /\ Idle(p)
    /\ authenticatedOnly(user)
    /\ LET request == Request("delete", user, id, NoData)
       IN IF id \notin DOMAIN repositories
          THEN Finish(p, request, JsonError("Repository not found", 404))
          ELSE IF NotOwner(repositories[id], user)
               THEN Finish(p, request, JsonError("Unauthorized", 403))
               ELSE Goto(p, request, "delete_delete")
    /\ UNCHANGED <<tables, nextId, now>>

DeleteDelete(p) ==
    /\ pc[p] = "delete_delete"
    /\ repositories' = DeleteRepository(req[p].id)
    /\ stars' = CascadeStars(req[p].id)
    /\ Finish(p, req[p], Json(NULL, 200))
    /\ UNCHANGED <<users, follows, nextId, now>>

(* ---------------------------- POST /repositories/:id/star -------------- *)
NeverStarred(user, id) == FALSE

\* the select on stars found a row
AlreadyStarred(user, id) == StarRows(user, id) # {}

\* the counter updates a repository may still receive stay within MaxCount
CountBounded(id) ==
    id \in DOMAIN repositories =>
        repositories[id].starsCount
          + Cardinality({q \in Procs : req[q].op = "star" /\ req[q].id = id}) < MaxCount

\* const [repo] = await db.select()...: the row the handler holds from its first
\* statement on, of which only starsCount is of interest
Selected(id) ==
    IF id \in DOMAIN repositories
    THEN [starsCount |-> repositories[id].starsCount] ELSE NoData

StarSelectRepo(p, user, id) ==
    /\ Idle(p)
    /\ authenticatedOnly(user)
    /\ CountBounded(id)
    /\ LET request == Request("star", user, id, Selected(id))
       IN IF id \notin DOMAIN repositories
          THEN Finish(p, request, JsonError("Repository not found", 404))
          ELSE Goto(p, request, "star_select_star")
    /\ UNCHANGED <<tables, nextId, now>>

StarSelectStar(p) ==
    /\ pc[p] = "star_select_star"
    /\ IF AlreadyStarred(req[p].user, req[p].id)
       THEN Finish(p, req[p], JsonError("Already starred", 400))
       ELSE Goto(p, req[p], "star_insert")
    /\ UNCHANGED <<tables, nextId, now>>

StarInsert(p) ==
    /\ pc[p] = "star_insert"
    /\ IF StarInsertAccepted(req[p].user, req[p].id)
       THEN /\ stars' = stars \cup {NewStar(req[p].user, req[p].id)}
            /\ Goto(p, req[p], "star_update")
       ELSE /\ stars' = stars
            /\ Finish(p, req[p], InternalError)
    /\ UNCHANGED <<users, repositories, follows, nextId, now>>

IncrementedTwice(starsCount) == starsCount + 2

\* sql`${repositories.starsCount} + 1`
Incremented(starsCount) == starsCount + 1

\* a read-modify-write: the counter as the handler's first select saw it
CountSelected(request) == request.data.starsCount

\* ${repositories.starsCount} inside the update statement: the counter as the
\* statement finds it
CountInStatement(request) == repositories[request.id].starsCount

StarUpdate(p) ==
    /\ pc[p] = "star_update"
    /\ repositories' =
          IF req[p].id \in DOMAIN repositories
          THEN UpdateRepository(req[p].id,
                  [starsCount |-> Incremented(CountInStatement(req[p]))])
          ELSE repositories
    /\ Finish(p, req[p], Json(NULL, 200))
    /\ UNCHANGED <<users, stars, follows, nextId, now>>

(* ---------------------------- DELETE /repositories/:id/star ------------ *)
UnstarDelete(p, user, id) ==
    /\ Idle(p)
    /\ authenticatedOnly(user)
    /\ stars' = stars \ StarRows(user, id)
    /\ LET request == Request("unstar", user, id, NoData)
       IN IF StarRows(user, id) = {}
          THEN Finish(p, request, JsonError("Not starred", 400))
          ELSE Goto(p, request, "unstar_update")
    /\ UNCHANGED <<users, repositories, follows, nextId, now>>

DecrementedUnclamped(starsCount) == starsCount - 1

\* sql`MAX(0, ${repositories.starsCount} - 1)`
Decremented(starsCount) == IF starsCount - 1 > 0 THEN starsCount - 1 ELSE 0

UnstarUpdate(p) ==
    /\ pc[p] = "unstar_update"
    /\ repositories' =
          IF req[p].id \in DOMAIN repositories
          THEN UpdateRepository(req[p].id,
                  [starsCount |-> Decremented(repositories[req[p].id].starsCount)])
          ELSE repositories
    /\ Finish(p, req[p], Json(NULL, 200))
    /\ UNCHANGED <<users, stars, follows, nextId, now>>

(* ---------------------------- GET /repositories/:id ------------------- *)
\* repo.isPrivate && (!user || repo.owner.id !== user.id)
Hidden(repo, user) == repo.isPrivate /\ (user = NoUser \/ repo.ownerId # user)

GetMissing == JsonError("Repository not found", 404)

GetForbidden == JsonError("Forbidden", 403)

GetHidden == JsonError("Repository not found", 404)

\* what the first statement of GET /repositories/:id decides: a final response,
\* or status NULL when the handler goes on to the select on stars
GetOutcome(user, id) ==
    IF id \notin DOMAIN repositories THEN GetMissing
    ELSE IF Hidden(repositories[id], user) THEN GetHidden
    ELSE IF user = NoUser THEN Response(200, "", id, FALSE, <<>>)
    ELSE NoResponse

GetSelectRepo(p, user, id) ==
    /\ Idle(p)
    /\ LET request == Request("get", user, id, NoData)
       IN IF GetOutcome(user, id) # NoResponse
          THEN Finish(p, request, GetOutcome(user, id))
          ELSE Goto(p, request, "get_select_star")
    /\ UNCHANGED <<tables, nextId, now>>

GetSelectStar(p) ==
    /\ pc[p] = "get_select_star"
    /\ Finish(p, req[p],
              Response(200, "", req[p].id, StarRows(req[p].user, req[p].id) # {}, <<>>))
    /\ UNCHANGED <<tables, nextId, now>>

(* ---------------------------- pagination and ordering ------------------ *)
DefaultLimit == 20
MaxLimit == 100
DefaultOffset == 0

Min(a, b) == IF a < b THEN a ELSE b

\* a query parameter is <<>> when absent and <<n>> when it reads as the integer n
\* Math.min(parseInt(query.limit || "20"), 100)
ParseLimit(param) == Min(IF param = <<>> THEN DefaultLimit ELSE param[1], MaxLimit)

\* parseInt(query.offset || "0")
ParseOffset(param) == IF param = <<>> THEN DefaultOffset ELSE param[1]

\* LIMIT limit OFFSET offset of the store: a negative LIMIT is no limit, a negative
\* OFFSET is no offset
Page(rows, limit, offset) ==
    LET skip == IF offset < 0 THEN 0 ELSE offset
        rest == SubSeq(rows, skip + 1, Len(rows))
    IN IF limit < 0 THEN rest ELSE SubSeq(rest, 1, Min(limit, Len(rest)))

\* the orders ORDER BY may return the rows S in: ascending in key, ties in any order
Orderings(S, key(_)) ==
    {rows \in [1..Cardinality(S) -> S] :
        /\ \A i, j \in 1..Cardinality(S) : i # j => rows[i] # rows[j]
        /\ \A i, j \in 1..Cardinality(S) : i < j => key(rows[i]) <= key(rows[j])}

\* like(column, `%${search}%`): strings are atoms here, none contained in another
Like(column, search) == column # NULL /\ column = search

(* ---------------------------- GET /repositories ------------------------ *)
ListWhere(repo, search, language) ==
    /\ search # NULL => Like(repo.name, search) \/ Like(repo.description, search)
    /\ language # NULL => repo.language = language
    /\ repo.isPrivate = FALSE

ListKey(repo, sortBy) ==
    CASE sortBy = "stars" -> 0 - repo.starsCount
      [] sortBy = "forks" -> 0 - repo.forksCount
      [] sortBy = "name" -> repo.name
      [] OTHER -> 0 - repo.updatedAt

List(p, user, query) ==
    /\ Idle(p)
    /\ LET request == Request("list", user, NULL, query)
           matching == {i \in DOMAIN repositories :
                           ListWhere(repositories[i], query.search, query.language)}
           Key(i) == ListKey(repositories[i], query.sortBy)
       IN \E rows \in Orderings(matching, Key) :
             Finish(p, request,
                    Response(200, "", NULL, FALSE,
                             Page(rows, ParseLimit(query.limit), ParseOffset(query.offset))))
    /\ UNCHANGED <<tables, nextId, now>>

(* ---------------------------- GET /repositories/user/:userId ----------- *)
ListByUserEverything(repo, currentUser, userId) == repo.ownerId = userId

ListByUserWhere(repo, currentUser, userId) ==
    IF currentUser = userId
    THEN repo.ownerId = userId
    ELSE repo.ownerId = userId /\ repo.isPrivate = FALSE

ListByUser(p, currentUser, userId, query) ==
    /\ Idle(p)
    /\ LET request == Request("listByUser", currentUser, userId, query)
           matching == {i \in DOMAIN repositories :
                           ListByUserWhere(repositories[i], currentUser, userId)}
           Key(i) == 0 - repositories[i].updatedAt
       IN \E rows \in Orderings(matching, Key) :
             Finish(p, request,
                    Response(200, "", NULL, FALSE,
                             Page(rows, ParseLimit(query.limit), ParseOffset(query.offset))))
    /\ UNCHANGED <<tables, nextId, now>>

(* ---------------------------- GET /users/:id/starred ------------------- *)
StarredWhere(star, userId) ==
    /\ star.userId = userId
    /\ star.repositoryId \in DOMAIN repositories
    /\ repositories[star.repositoryId].isPrivate = FALSE

Starred(p, user, userId, query) ==
    /\ Idle(p)
    /\ LET request == Request("starred", user, userId, query)
           matching == {s \in stars : StarredWhere(s, userId)}
           Key(s) == 0 - s.createdAt
       IN \E rows \in Orderings(matching, Key) :
             Finish(p, request,
                    Response(200, "", NULL, FALSE,
                             Page([i \in 1..Len(rows) |-> rows[i].repositoryId],
                                  ParseLimit(query.limit), ParseOffset(query.offset))))
    /\ UNCHANGED <<tables, nextId, now>>

(* ---------------------------- POST /users/:id/follow ------------------- *)
SelfFollowAllowed(currentUser, userId) == FALSE

SelfFollow(currentUser, userId) == currentUser = userId

FollowSelectUser(p, currentUser, userId) ==
    /\ Idle(p)
    /\ authenticatedOnly(currentUser)
    /\ LET request == Request("follow", currentUser, userId, NoData)
       IN IF SelfFollow(currentUser, userId)
          THEN Finish(p, request, JsonError("Cannot follow yourself", 400))
          ELSE IF userId \notin users
               THEN Finish(p, request, JsonError("User not found", 404))
               ELSE Goto(p, request, "follow_select_follow")
    /\ UNCHANGED <<tables, nextId, now>>

NeverFollowing(currentUser, userId) == FALSE

\* existing.length > 0
AlreadyFollowing(currentUser, userId) == <<currentUser, userId>> \in follows

FollowSelectFollow(p) ==
    /\ pc[p] = "follow_select_follow"
    /\ IF AlreadyFollowing(req[p].user, req[p].id)
       THEN Finish(p, req[p], JsonError("Already following", 400))
       ELSE Goto(p, req[p], "follow_insert")
    /\ UNCHANGED <<tables, nextId, now>>

FollowInsert(p) ==
    /\ pc[p] = "follow_insert"
    /\ IF FollowInsertAccepted(req[p].user, req[p].id)
       THEN /\ follows' = follows \cup {<<req[p].user, req[p].id>>}
            /\ Finish(p, req[p], Json(NULL, 200))
       ELSE /\ follows' = follows
            /\ Finish(p, req[p], InternalError)
    /\ UNCHANGED <<users, repositories, stars, nextId, now>>

(* ---------------------------- DELETE /users/:id/follow ----------------- *)
UnfollowDelete(p, currentUser, userId) ==
    /\ Idle(p)
    /\ authenticatedOnly(currentUser)
    /\ follows' = follows \ {<<currentUser, userId>>}
    /\ LET request == Request("unfollow", currentUser, userId, NoData)
       IN IF <<currentUser, userId>> \notin follows
          THEN Finish(p, request, JsonError("Not following", 400))
          ELSE Finish(p, request, Json(NULL, 200))
    /\ UNCHANGED <<users, repositories, stars, nextId, now>>

(* ---------------------------- time ------------------------------------- *)
\* the clock behind defaultNow and `new Date()`
Tick ==
    /\ now < MaxTime
    /\ now' = now + 1
    /\ last' = NoExchange
    /\ UNCHANGED <<tables, nextId, pc, req>>

(* ---------------------------- inputs ---------------------------------- *)
Callers == UserIds \cup {NoUser}

\* JSON bodies a client may send to POST /repositories: the name alone, ...
NameBodies == {[name |-> n] : n \in Strings}

\* ... or with other keys, among them one the schema does not know
CreateBodies ==
    {[name |-> n, isPrivate |-> b, ownerId |-> u] :
        n \in Strings, b \in BOOLEAN, u \in {MaxUsers}}
    \cup {[name |-> n, description |-> MaxStr] : n \in Strings}

VisibilityBodies == {[name |-> n, isPrivate |-> b] : n \in Strings, b \in BOOLEAN}

\* JSON bodies a client may send to PATCH /repositories/:id, some with keys the
\* schema does not know
PatchBodies ==
    {[description |-> d, name |-> MaxStr, isPrivate |-> TRUE] : d \in Strings}
    \cup {[language |-> MaxStr, readme |-> MaxStr, starsCount |-> MaxCount]}

\* limit and offset as the query string gives them
Pages ==
    {[limit |-> <<>>, offset |-> <<>>], [limit |-> <<1>>, offset |-> <<1>>],
     [limit |-> <<-1>>, offset |-> <<-1>>], [limit |-> <<MaxLimit + 1>>, offset |-> <<0>>]}

SortKeys == {"stars", "forks", "name", "updated"}

\* query strings of GET /repositories
ListQueries ==
    {[search |-> NULL, language |-> NULL, sortBy |-> k, limit |-> <<>>, offset |-> <<>>] :
        k \in SortKeys}
    \cup {[search |-> t, language |-> NULL, sortBy |-> "updated",
           limit |-> <<>>, offset |-> <<>>] : t \in Strings}
    \cup {[search |-> NULL, language |-> t, sortBy |-> "updated",
           limit |-> <<>>, offset |-> <<>>] : t \in Strings}
    \cup {[search |-> NULL, language |-> NULL, sortBy |-> "name",
           limit |-> q.limit, offset |-> q.offset] : q \in Pages}

(* ---------------------------- specifications --------------------------- *)
Creates(P, bodies) ==
    \E p \in P :
        \/ \E user \in UserIds, body \in bodies : CreateSelect(p, user, body)
        \/ CreateInsert(p)

Patches(P, bodies) ==
    \E p \in P :
        \/ \E user \in UserIds, id \in AnyRepoId, body \in bodies :
              PatchSelect(p, user, id, body)
        \/ PatchUpdate(p)

Deletes(P) ==
    \E p \in P :
        \/ \E user \in UserIds, id \in AnyRepoId : DeleteSelect(p, user, id)
        \/ DeleteDelete(p)

Stars(P) ==
    \E p \in P :
        \/ \E user \in UserIds, id \in AnyRepoId : StarSelectRepo(p, user, id)
        \/ StarSelectStar(p)
        \/ StarInsert(p)
        \/ StarUpdate(p)

Unstars(P) ==
    \E p \in P :
        \/ \E user \in UserIds, id \in AnyRepoId : UnstarDelete(p, user, id)
        \/ UnstarUpdate(p)

Reads(P) ==
    \E p \in P :
        \/ \E user \in Callers, id \in AnyRepoId : GetSelectRepo(p, user, id)
        \/ GetSelectStar(p)
        \/ \E user \in Callers, query \in ListQueries : List(p, user, query)
        \/ \E user \in Callers, userId \in AnyUserId, query \in Pages :
              ListByUser(p, user, userId, query)
        \/ \E user \in Callers, userId \in AnyUserId, query \in Pages :
              Starred(p, user, userId, query)

Follows(P) ==
    \E p \in P :
        \/ \E user \in UserIds, id \in AnyUserId : FollowSelectUser(p, user, id)
        \/ FollowSelectFollow(p)
        \/ FollowInsert(p)
        \/ \E user \in UserIds, id \in AnyUserId : UnfollowDelete(p, user, id)

\* concurrent requests on repositories and stars, statement by statement
Next == Creates(Procs, NameBodies) \/ Deletes(Procs) \/ Stars(Procs) \/ Unstars(Procs)

Spec == Init /\ [][Next]_vars

\* the Repository Service with its requests one at a time, each run to completion
One == {MaxProcs}

NextSeq ==
    \/ Creates(One, CreateBodies) \/ Deletes(One)
    \/ Stars(One) \/ Unstars(One) \/ Tick

SpecSeq == Init /\ [][NextSeq]_vars

\* the owners' write paths on repositories that get starred, one request at a time
NextEdit ==
    \/ Creates(One, NameBodies) \/ Patches(One, PatchBodies) \/ Deletes(One)
    \/ Stars(One)

SpecEdit == Init /\ [][NextEdit]_vars

\* the read paths, between writes that run one at a time
NextRead ==
    \/ Creates(One, VisibilityBodies) \/ Stars(One) \/ Reads(One)

SpecRead == Init /\ [][NextRead]_vars

\* concurrent follow and unfollow requests
NextFollow == Follows(Procs)

SpecFollow == Init /\ [][NextFollow]_vars

\* concurrent star requests on the repositories there are, nothing unstarred or
\* deleted, while time passes
NextStar == Creates(Procs, NameBodies) \/ Stars(Procs) \/ Tick

SpecStar == Init /\ [][NextStar]_vars

(* ---------------------------- properties ------------------------------ *)
Range(f) == {f[i] : i \in DOMAIN f}
StarsOf(id) == {s \in stars : s.repositoryId = id}
\* an id no repository ever has
MissingId == MaxRepos + 1

\* C1: GET /repositories/:id of a private repository answers every caller but its
\* owner (another user, or nobody) with 404, never 403, and with the very response
\* the caller gets for an id that does not exist; the owner gets the repository.
C1_PrivateLooksMissing ==
    /\ \A id \in DOMAIN repositories, user \in Callers :
          repositories[id].isPrivate /\ user # repositories[id].ownerId =>
              /\ GetOutcome(user, id).status = 404
              /\ GetOutcome(user, id) = GetOutcome(user, MissingId)
    /\ \A id \in DOMAIN repositories :
          /\ last.request.op = "get"
          /\ last.request.id = id
          /\ repositories[id].isPrivate
          => IF last.request.user = repositories[id].ownerId
             THEN last.response.status = 200 /\ last.response.id = id
             ELSE last.response = GetOutcome(last.request.user, MissingId)

C1_Witness ==
    /\ last.request.op = "get"
    /\ last.request.id \in DOMAIN repositories
    /\ repositories[last.request.id].isPrivate
    /\ last.request.user \in UserIds
    /\ last.request.user # repositories[last.request.id].ownerId
    /\ last.response.status = 404

\* C2: under every interleaving of the store statements of concurrent star, unstar,
\* create and delete requests, no repository has a negative starsCount; the
\* decrement of an unstar that finds starsCount = 0 leaves it at 0.
C2_StarsCountNonNegative ==
    /\ \A id \in DOMAIN repositories : repositories[id].starsCount >= 0
    /\ \A id \in DOMAIN repositories :
          /\ last.request.op = "unstar"
          /\ last.request.id = id
          /\ last.response.status = 200
          /\ last.before = 0
          => repositories[id].starsCount = 0

C2_Witness ==
    /\ last.request.op = "unstar"
    /\ last.response.status = 200
    /\ last.before = 0
    /\ last.request.id \in DOMAIN repositories

\* C3: a star whose select on stars finds the caller's row answers 400 and changes
\* neither repositories nor stars; an unstar whose delete finds no row of the caller
\* answers 400 and changes neither.
C3_ConflictChangesNothing ==
    [][/\ \A p \in Procs :
             /\ pc[p] = "star_select_star"
             /\ pc'[p] # pc[p]
             /\ StarRows(req[p].user, req[p].id) # {}
             => /\ last'.response.status = 400
                /\ last'.request = req[p]
                /\ repositories' = repositories
                /\ stars' = stars
       /\ /\ last'.request.op = "unstar"
          /\ pc' = pc
          /\ StarRows(last'.request.user, last'.request.id) = {}
          => /\ last'.response.status = 400
             /\ repositories' = repositories
             /\ stars' = stars]_vars

C3_Witness ==
    /\ last.request.op = "star"
    /\ last.response.status = 400
    /\ StarRows(last.request.user, last.request.id) # {}
    /\ repositories[last.request.id].starsCount > 0

\* C4: with the requests one at a time, a successful star leaves the caller's row in
\* stars and starsCount one above what it found, a successful unstar leaves no row
\* of the caller and starsCount one below, a created repository has starsCount 0,
\* and whenever no request is in flight every starsCount is the number of Star rows
\* of the repository.
C4_CountMatchesRows ==
    /\ (\A p \in Procs : pc[p] = "idle") =>
          \A id \in DOMAIN repositories :
              repositories[id].starsCount = Cardinality(StarsOf(id))
    /\ last.request.op = "star" /\ last.response.status = 200 =>
          /\ Cardinality(StarRows(last.request.user, last.request.id)) = 1
          /\ repositories[last.request.id].starsCount = last.before + 1
    /\ last.request.op = "unstar" /\ last.response.status = 200 =>
          /\ StarRows(last.request.user, last.request.id) = {}
          /\ repositories[last.request.id].starsCount = last.before - 1
    /\ last.request.op = "create" /\ last.response.status = 201 =>
          /\ repositories[last.response.id].starsCount = 0
          /\ StarsOf(last.response.id) = {}

\* the scenario of the specification: starred once, starred again (400), unstarred
C4_Witness ==
    /\ last.request.op = "unstar"
    /\ last.response.status = 200
    /\ last.before = 1
    /\ repositories[last.request.id].starsCount = 0
    /\ repositories[last.request.id].ownerId # last.request.user

\* C5: no two repositories have the same (ownerId, name), also when the existence
\* check and the insert of two concurrent creates of one caller interleave.
C5_OwnerNameUnique ==
    \A i, j \in DOMAIN repositories :
        i # j => \/ repositories[i].ownerId # repositories[j].ownerId
                 \/ repositories[i].name # repositories[j].name

\* C6: a create run to completion answers 400 and adds no row when the caller owns
\* a repository of that name, and otherwise answers 201 and adds exactly one row,
\* owned by the caller, whoever else owns a repository of that name.
C6_CreateConflictPerOwner ==
    [][last'.request.op = "create" =>
          LET user == last'.request.user
              name == last'.request.data.name
              owned == \E i \in DOMAIN repositories :
                          /\ repositories[i].ownerId = user
                          /\ repositories[i].name = name
          IN IF owned
             THEN /\ last'.response.status = 400
                  /\ repositories' = repositories
             ELSE /\ last'.response.status = 201
                  /\ DOMAIN repositories' = DOMAIN repositories \cup {last'.response.id}
                  /\ last'.response.id \notin DOMAIN repositories
                  /\ repositories'[last'.response.id].ownerId = user
                  /\ repositories'[last'.response.id].name = name
                  /\ \A i \in DOMAIN repositories : repositories'[i] = repositories[i]]_vars

\* the same name under two owners, the second create just answered 201
C6_Witness ==
    /\ last.request.op = "create"
    /\ last.response.status = 201
    /\ \E i \in DOMAIN repositories :
          /\ i # last.response.id
          /\ repositories[i].name = repositories[last.response.id].name
          /\ repositories[i].ownerId # repositories[last.response.id].ownerId

\* C7: POST /users/:id/follow with :id the caller's own id answers 400 in every
\* state and inserts nothing, so no Follow row ever has followerId = followingId.
C7_FollowIrreflexive ==
    [][/\ last'.request.op = "follow" /\ last'.request.user = last'.request.id =>
             /\ last'.response.status = 400
             /\ last'.response.error = "Cannot follow yourself"
             /\ follows' = follows
       /\ \A f \in follows' : f[1] # f[2]]_vars

C7_Witness ==
    /\ last.request.op = "follow"
    /\ last.request.user = last.request.id
    /\ last.response.status = 400
    /\ \E f \in follows : f[1] = last.request.user
    /\ \E f \in follows : f[2] = last.request.user

\* C8: PATCH and DELETE /repositories/:id answer 404 for a missing id and 403 for a
\* repository of another owner, changing neither repositories nor stars; they go on
\* to their write only for the owner, and the write changes or removes no row but
\* the addressed one, owned by the caller.
C8_OwnerOnly ==
    [][/\ last'.request.op \in {"update", "delete"} /\ pc' = pc =>
             /\ IF last'.request.id \notin DOMAIN repositories
                THEN last'.response.status = 404
                ELSE /\ repositories[last'.request.id].ownerId # last'.request.user
                     /\ last'.response.status = 403
             /\ repositories' = repositories
             /\ stars' = stars
       /\ \A p \in Procs :
             pc[p] = "idle" /\ pc'[p] \in {"patch_update", "delete_delete"} =>
                /\ req'[p].id \in DOMAIN repositories
                /\ repositories[req'[p].id].ownerId = req'[p].user
                /\ repositories' = repositories
                /\ stars' = stars
       /\ \A p \in Procs, id \in DOMAIN repositories :
             /\ pc[p] \in {"patch_update", "delete_delete"}
             /\ pc'[p] # pc[p]
             /\ (id \notin DOMAIN repositories' \/ repositories'[id] # repositories[id])
             => /\ id = req[p].id
                /\ repositories[id].ownerId = req[p].user]_vars

\* a delete of another owner's repository was refused, and the repository is there
C8_Witness ==
    /\ last.request.op = "delete"
    /\ last.response.status = 403
    /\ last.request.id \in DOMAIN repositories
    /\ StarsOf(last.request.id) # {}

\* the page of the query reaches over every repository there is
Covers(query) ==
    /\ ParseOffset(query.offset) <= 0
    /\ \/ ParseLimit(query.limit) < 0
       \/ ParseLimit(query.limit) >= Cardinality(DOMAIN repositories)

\* C9: for every caller, nobody included: GET /repositories/user/:userId returns a
\* private repository only to the caller whose id is userId and only if userId owns
\* it, and returns it to that caller, like the public repositories of userId to every
\* caller, when the page reaches that far; GET /repositories and
\* GET /users/:id/starred never return a private repository.
C9_PrivateOnlyToOwner ==
    /\ last.request.op = "listByUser" =>
          \A id \in DOMAIN repositories :
              /\ id \in Range(last.response.list) =>
                    /\ repositories[id].ownerId = last.request.id
                    /\ repositories[id].isPrivate => last.request.user = last.request.id
              /\ /\ repositories[id].ownerId = last.request.id
                 /\ repositories[id].isPrivate => last.request.user = last.request.id
                 /\ Covers(last.request.data)
                 => id \in Range(last.response.list)
    /\ last.request.op \in {"list", "starred"} =>
          \A id \in Range(last.response.list) :
              id \in DOMAIN repositories /\ ~repositories[id].isPrivate

\* the owner lists their own repositories and gets a private one
C9_Witness ==
    /\ last.request.op = "listByUser"
    /\ last.request.user = last.request.id
    /\ \E id \in Range(last.response.list) : repositories[id].isPrivate
    /\ \E id \in Range(last.response.list) : ~repositories[id].isPrivate

\* C10: a successful PATCH /repositories/:id changes description, language, readme
\* and updatedAt of the addressed repository at most: its other columns, every other
\* repository and every Star row stay as they were.
C10_UpdateFrame ==
    [][last'.request.op = "update" /\ last'.response.status = 200 =>
          /\ stars' = stars
          /\ DOMAIN repositories' = DOMAIN repositories
          /\ \A i \in DOMAIN repositories :
                \A c \in DOMAIN repositories[i] :
                    \/ i = last'.request.id
                       /\ c \in {"description", "language", "readme", "updatedAt"}
                    \/ repositories'[i][c] = repositories[i][c]]_vars

\* an update went through on a starred repository, beside another repository
C10_Witness ==
    /\ last.request.op = "update"
    /\ last.response.status = 200
    /\ last.response.id = last.request.id
    /\ "description" \in DOMAIN last.request.data
    /\ repositories[last.request.id].description = last.request.data.description
    /\ StarsOf(last.request.id) # {}
    /\ \E i \in DOMAIN repositories : i # last.request.id

\* C11: every Star row references a repository that exists: the delete of a
\* repository removes every Star row of it, and a star whose existence check ran
\* before the delete inserts no row after it, however the statements of star and
\* delete requests interleave.
C11_StarsReferenceRepositories ==
    [][/\ \A s \in stars' : s.repositoryId \in DOMAIN repositories'
       /\ \A p \in Procs :
             pc[p] = "delete_delete" /\ pc'[p] # pc[p] =>
                /\ req[p].id \notin DOMAIN repositories'
                /\ \A s \in stars' : s.repositoryId # req[p].id
                /\ \A s \in stars : s.repositoryId # req[p].id => s \in stars'
       /\ \A p \in Procs :
             /\ pc[p] = "star_insert"
             /\ pc'[p] # pc[p]
             /\ req[p].id \notin DOMAIN repositories
             => stars' = stars]_vars

\* a delete went through while a star of the same repository sat between its insert
\* and its counter update: the row it had inserted is gone
C11_Witness ==
    /\ last.request.op = "delete"
    /\ last.response.status = 200
    /\ \E q \in Procs : pc[q] = "star_update" /\ req[q].id = last.request.id
    /\ StarsOf(last.request.id) = {}
    /\ stars # {}

\* C12: per (caller, target) pair the Follow row is there or not.  A follow answers
\* 400 when the target is the caller, else 404 when the target user is missing, else
\* 400 when its select finds the row, and else goes on to insert the (caller, target)
\* row and no other; an unfollow removes the (caller, target) row and no other when
\* it is there and answers 400 when it is not; a request that fails leaves follows
\* as it was, and no step touches a row whose followerId is not the caller of the
\* request that takes it.
C12_FollowAutomaton ==
    [][/\ last'.request.op = "follow" /\ pc' = pc =>
             /\ follows' = follows
             /\ IF last'.request.id = last'.request.user
                THEN /\ last'.response.status = 400
                     /\ last'.response.error = "Cannot follow yourself"
                ELSE /\ last'.request.id \notin users
                     /\ last'.response.status = 404
       /\ \A p \in Procs :
             pc[p] = "idle" /\ pc'[p] = "follow_select_follow" =>
                /\ req'[p].id # req'[p].user
                /\ req'[p].id \in users
                /\ follows' = follows
       /\ \A p \in Procs :
             pc[p] = "follow_select_follow" /\ pc'[p] # pc[p] =>
                /\ follows' = follows
                /\ IF <<req[p].user, req[p].id>> \in follows
                   THEN /\ pc'[p] = "idle"
                        /\ last'.request = req[p]
                        /\ last'.response.status = 400
                        /\ last'.response.error = "Already following"
                   ELSE pc'[p] = "follow_insert" /\ req'[p] = req[p]
       /\ \A p \in Procs :
             pc[p] = "follow_insert" /\ pc'[p] # pc[p] =>
                /\ follows' = follows \cup {<<req[p].user, req[p].id>>}
                /\ last'.request = req[p]
                /\ last'.response.status = 200 <=> follows' # follows
       /\ last'.request.op = "unfollow" =>
             LET row == <<last'.request.user, last'.request.id>>
             IN /\ follows' = follows \ {row}
                /\ IF row \in follows
                   THEN last'.response.status = 200
                   ELSE /\ last'.response.status = 400
                        /\ last'.response.error = "Not following"
       /\ last'.request.op \in {"follow", "unfollow"} =>
             /\ last'.response.status # 200 => follows' = follows
             /\ \A f \in (follows' \ follows) \cup (follows \ follows') :
                   f = <<last'.request.user, last'.request.id>>
       /\ last'.request.op \notin {"follow", "unfollow"} => follows' = follows]_vars

\* followed, then unfollowed: the row of the pair is gone and the row of the
\* opposite pair is still there
C12_Witness ==
    /\ last.request.op = "unfollow"
    /\ last.response.status = 200
    /\ <<last.request.user, last.request.id>> \notin follows
    /\ <<last.request.id, last.request.user>> \in follows

\* the star requests that have inserted their row of repository id and not yet
\* updated its counter
Pending(id) == {p \in Procs : pc[p] = "star_update" /\ req[p].id = id}

\* C13: with star requests of distinct users for one repository interleaved in any
\* way and no unstar or delete, no increment is lost: every starsCount is the number
\* of Star rows of the repository less the requests still before their counter
\* update, so once k requests have completed starsCount is up by k with k new rows.
C13_NoLostUpdate ==
    /\ \A id \in DOMAIN repositories :
          repositories[id].starsCount + Cardinality(Pending(id)) = Cardinality(StarsOf(id))
    /\ (\A p \in Procs : pc[p] = "idle") =>
          \A id \in DOMAIN repositories :
              /\ repositories[id].starsCount = Cardinality(StarsOf(id))
              /\ \A s, t \in StarsOf(id) : s.userId = t.userId => s = t
    /\ last.request.op = "star" /\ last.response.status = 200 =>
          repositories[last.request.id].starsCount = last.before + 1

\* two users' stars of one repository have both completed, the second having
\* selected the repository before the first updated the counter
C13_Witness ==
    /\ \A p \in Procs : pc[p] = "idle"
    /\ last.request.op = "star"
    /\ last.response.status = 200
    /\ last.request.data.starsCount = 0
    /\ last.before = MaxProcs - 1
    /\ repositories[last.request.id].starsCount = MaxProcs
    /\ Cardinality(StarsOf(last.request.id)) = MaxProcs

\* C14: GET /repositories and GET /repositories/user/:userId hand the store a limit
\* of at most 100 and an offset of at least 0 whatever integers the query gives,
\* negative ones included, and limit 20 and offset 0 when the query gives none.
C14_PaginationBounds ==
    last.request.op \in {"list", "listByUser"} =>
        LET query == last.request.data
        IN /\ ParseLimit(query.limit) <= MaxLimit
           /\ ParseOffset(query.offset) >= 0
           /\ query.limit = <<>> => ParseLimit(query.limit) = DefaultLimit
           /\ query.offset = <<>> => ParseOffset(query.offset) = DefaultOffset

\* C15: whenever no request is in flight every starsCount is the number of Star
\* rows of the repository, also after the statements of star and unstar requests of
\* one user for one repository have interleaved (an unstar's delete and clamped
\* decrement between a star's insert and its increment).
C15_CountMatchesRowsAtRest ==
    (\A p \in Procs : Idle(p)) =>
        \A id \in DOMAIN repositories :
            repositories[id].starsCount = Cardinality(StarsOf(id))

\* C16: when two star requests of one user for one repository both pass the select
\* on stars before either inserts, the store rejects the second insert (composite
\* primary key): that request ends there with an error, never reaching the counter
\* update, so the pair has at most one Star row and starsCount is incremented at
\* most once for it.
C16_DuplicateStarRejected ==
    [][/\ \A s, t \in stars' :
             s.userId = t.userId /\ s.repositoryId = t.repositoryId => s = t
       /\ \A p \in Procs :
             /\ pc[p] = "star_insert"
             /\ pc'[p] # pc[p]
             /\ StarRows(req[p].user, req[p].id) # {}
             => /\ pc'[p] = "idle"
                /\ last'.request = req[p]
                /\ last'.response.status # 200
                /\ stars' = stars
                /\ repositories' = repositories
       /\ \A p \in Procs :
             pc[p] # "star_update" /\ pc'[p] = "star_update" =>
                /\ StarRows(req[p].user, req[p].id) = {}
                /\ Cardinality(stars') = Cardinality(stars) + 1
       /\ \A id \in DOMAIN repositories' :
             repositories'[id].starsCount <= Cardinality({s \in stars' : s.repositoryId = id})]_vars

\* the second of two such requests has been rejected after the first completed:
\* one row, counted once, although time passed between the two inserts
C16_Witness ==
    /\ last.request.op = "star"
    /\ last.response.status = 500
    /\ last.request.id \in DOMAIN repositories
    /\ \A p \in Procs : pc[p] = "idle"
    /\ Cardinality(StarRows(last.request.user, last.request.id)) = 1
    /\ repositories[last.request.id].starsCount = 1
    /\ \E s \in StarRows(last.request.user, last.request.id) : s.createdAt < now

====
